---- MODULE Spec2Model ----
(***************************************************************************)
(* Model of the client state store of the habit tracker mini app           *)
(* (webapp/src/store/useHabitStore.ts): the zustand state object, its      *)
(* mutation actions, its derived queries and the persist middleware that   *)
(* mirrors {user, habits} into the 'habitmax-storage' slot; and of the     *)
(* pages that write to it: the completion handler of the Dashboard and of  *)
(* the Habits page, whose api.completeHabit requests are kept in inflight  *)
(* from the click until the response.                                      *)
(***************************************************************************)
EXTENDS Integers, Sequences, FiniteSets, TLC

VARIABLES state, storage, lastOp, ret, inflight,
          isCompleting, fetches, assistant, chat, form

vars == <<state, storage, lastOp, ret, inflight,
          isCompleting, fetches, assistant, chat, form>>

\* The state of the components that are not habit cards: the runs of
\* App.loadData, the AIAssistant page, the AIChat and the HabitForm.
components == <<fetches, assistant, chat, form>>

(***************************************************************************)
(* Bounds of the model.                                                    *)
(***************************************************************************)
MaxHabits == 2
MaxCount == 2
MaxProgressHabits == 40
MaxInflight == 2
MaxLoads == 2
MaxRequests == 2
MaxMessages == 5
MaxSuggests == 3

(***************************************************************************)
(* Values.  null is modelled per type: a string for user / error / the AI  *)
(* artifacts, 0 for the numeric selectedHabitId.                           *)
(***************************************************************************)
Null == "null"
NullId == 0
Undefined == "undefined"

\* The key-value storage: a function from keys to items; empty at first.
StorageKey == "habitmax-storage"
EmptyStorage == [k \in {} |-> Null]

Ids == {1, 2}

Habit(id, active, streak, best, total, done) ==
    [id |-> id, is_active |-> active, current_streak |-> streak,
     best_streak |-> best, total_completions |-> total,
     is_completed_today |-> done]

\* Habit payloads as the REST API hands them to the UI.
HabitInputs ==
    { Habit(1, TRUE, 0, 0, 0, FALSE),
      Habit(2, FALSE, 0, 1, 1, FALSE) }

\* Partial<Habit> payloads of updateHabit.
UpdateInputs ==
    { [is_active |-> FALSE],
      [total_completions |-> 0, is_completed_today |-> FALSE] }

RECURSIVE SeqsUpTo(_, _)
SeqsUpTo(S, n) ==
    IF n = 0 THEN {<<>>}
    ELSE LET shorter == SeqsUpTo(S, n - 1)
         IN shorter \cup {Append(s, x) : s \in shorter, x \in S}

ListInputs == SeqsUpTo(HabitInputs, MaxHabits)

\* Collections of n habits with distinct ids of which the first c are
\* completed today (what getHabits returns for a user with many habits).
ProgressList(n, c) == [i \in 1..n |-> Habit(i, TRUE, 0, 0, 0, i <= c)]
ProgressLists ==
    {ProgressList(n, c) : n \in 0..MaxProgressHabits, c \in 0..MaxProgressHabits}

\* The smaller payloads used where the whole store is explored.
SessionHabits == {Habit(1, TRUE, 0, 0, 0, FALSE)}
SessionLists == SeqsUpTo(SessionHabits, 1)
SessionUpdates == {[is_completed_today |-> TRUE]}

UserInputs == {"u1"}
SummaryInputs == {"summary1"}
AnalysisInputs == {"analysis1"}
ProgressInputs == {"progress1"}
ErrorInputs == {Null, "msg"}
SelectInputs == {NullId, 1}

(***************************************************************************)
(* The state object and the persist middleware.                            *)
(***************************************************************************)
InitialState ==
    [habits |-> <<>>, user |-> Null, weeklySummary |-> Null,
     failureAnalysis |-> Null, weeklyProgress |-> Null,
     isLoading |-> FALSE, error |-> Null, selectedHabitId |-> NullId]

\* A persist without partialize: the whole state is written.
partializeAll(s) == s

\* partialize: the subset of the state that is persisted.
partialize(s) == [user |-> s.user, habits |-> s.habits]

\* The storage after the item is written under 'habitmax-storage'.
setItem(s) == [k \in {StorageKey} |-> [state |-> partialize(s), version |-> 0]]

\* Shallow merge {...a, ...b} of two objects.
Merge(a, b) ==
    [k \in DOMAIN a \cup DOMAIN b |-> IF k \in DOMAIN b THEN b[k] ELSE a[k]]

\* Start-up of the persisted store: the slot, if present, is merged over
\* the initial state.
Hydrate(store) ==
    IF StorageKey \in DOMAIN store
    THEN Merge(InitialState, store[StorageKey].state)
    ELSE InitialState

\* A set that writes the slot before it merges.
SetStale(op, id, n, partial) ==
    /\ state' = Merge(state, partial)
    /\ storage' = setItem(state)
    /\ lastOp' = [op |-> op, id |-> id, n |-> n]
    /\ ret' = Undefined
    /\ UNCHANGED <<inflight, isCompleting, components>>

\* set(partial) of the created store: merge, then write the slot.  lastOp
\* keeps the name of the action, its id argument and n, the number of
\* habits that matched id when it was called.
Set(op, id, n, partial) ==
    /\ state' = Merge(state, partial)
    /\ storage' = setItem(state')
    /\ lastOp' = [op |-> op, id |-> id, n |-> n]
    /\ ret' = Undefined
    /\ UNCHANGED <<inflight, isCompleting, components>>

(***************************************************************************)
(* Helpers over the habit collection.                                      *)
(***************************************************************************)
Map(f(_), s) == [i \in DOMAIN s |-> f(s[i])]

RECURSIVE Filter(_, _)
Filter(p(_), s) ==
    IF s = <<>> THEN <<>>
    ELSE IF p(Head(s)) THEN <<Head(s)>> \o Filter(p, Tail(s))
         ELSE Filter(p, Tail(s))

Matching(habits, id) == {i \in DOMAIN habits : habits[i].id = id}

(***************************************************************************)
(* JavaScript numbers.  The operands of getTodayProgress are IEEE 754      *)
(* doubles.  A positive double is a significand of 53 bits with leading    *)
(* bit 1 and an exponent, its value being significand * 2^exp.  The        *)
(* significand is kept as five digits of radix 2^13, most significant      *)
(* first, the first digit being the leading bit (53 = 1 + 4 * 13).         *)
(* Quotients and products are rounded to nearest, ties to even.            *)
(***************************************************************************)
DigitBits == 13
Radix == 2 ^ DigitBits
SigDigits == 5
SigBits == 1 + (SigDigits - 1) * DigitBits

Zero == [sig |-> [i \in 1..SigDigits |-> 0], exp |-> 0]

\* Carry propagation from the last digit up; the first digit takes the rest.
RECURSIVE Propagate(_, _)
Propagate(d, carry) ==
    IF Len(d) = 1 THEN <<d[1] + carry>>
    ELSE LET v == d[Len(d)] + carry
         IN Append(Propagate(SubSeq(d, 1, Len(d) - 1), v \div Radix),
                   v % Radix)

\* Round to nearest, ties to even: sig is the exact significand cut after
\* SigBits bits, guard the next bit and sticky tells whether any lower bit
\* of the exact value is set.
RoundDouble(sig, guard, sticky, exp) ==
    LET up == guard = 1 /\ (sticky \/ sig[SigDigits] % 2 = 1)
        inc == IF up
               THEN Propagate(sig, 1)
               ELSE sig
    IN IF inc[1] = 2
       THEN [sig |-> [i \in 1..SigDigits |-> IF i = 1 THEN 1 ELSE 0],
             exp |-> exp + 1]
       ELSE [sig |-> inc, exp |-> exp]

\* The number of doublings that bring c up to n.
RECURSIVE Shift(_, _)
Shift(c, n) == IF c >= n THEN 0 ELSE 1 + Shift(2 * c, n)

\* One digit of a long division by n with remainder r.
DivStep(r, n) == [d |-> (r * Radix) \div n, r |-> (r * Radix) % n]

\* The double c / n for naturals 0 <= c <= n, 0 < n.
NumDiv(c, n) ==
    IF c = 0 THEN Zero
    ELSE LET e == Shift(c, n)
             s1 == DivStep(c * 2 ^ e - n, n)
             s2 == DivStep(s1.r, n)
             s3 == DivStep(s2.r, n)
             s4 == DivStep(s3.r, n)
         IN RoundDouble(<<1, s1.d, s2.d, s3.d, s4.d>>,
                        (2 * s4.r) \div n, (2 * s4.r) % n # 0,
                        -e - (SigBits - 1))

RECURSIVE BitLen(_)
BitLen(n) == IF n = 0 THEN 0 ELSE 1 + BitLen(n \div 2)

\* The double x * m for a double x >= 0 and a natural m < Radix.
NumMul(x, m) ==
    IF x.sig[1] = 0 \/ m = 0 THEN Zero
    ELSE LET prod == Propagate([i \in 1..SigDigits |-> x.sig[i] * m], 0)
             s == BitLen(prod[1]) - 1
             cut == 2 ^ s
             sig == [i \in 1..SigDigits |->
                       IF i = 1 THEN prod[1] \div cut
                       ELSE (prod[i - 1] % cut) * (Radix \div cut)
                            + prod[i] \div cut]
             dropped == prod[SigDigits] % cut
         IN IF s = 0 THEN [sig |-> prod, exp |-> x.exp]
            ELSE RoundDouble(sig, dropped \div (cut \div 2),
                             dropped % (cut \div 2) # 0, x.exp + s)

\* Bit k of a significand, bit 0 being the least significant.
Bit(sig, k) ==
    IF k \in 0..(SigBits - 1)
    THEN (sig[SigDigits - (k \div DigitBits)] \div 2 ^ (k % DigitBits)) % 2
    ELSE 0

\* The significand shifted right by k bits.
RECURSIVE ShiftRight(_, _)
ShiftRight(sig, k) ==
    IF k >= SigBits THEN 0 ELSE Bit(sig, k) + 2 * ShiftRight(sig, k + 1)

\* Math.round of a double 0 <= x < 2^31: the nearest integer, ties upwards.
MathRound(x) ==
    LET frac == -x.exp
    IN IF frac <= 0 THEN ShiftRight(x.sig, 0) * 2 ^ (-frac)
       ELSE ShiftRight(x.sig, frac) + Bit(x.sig, frac - 1)

(***************************************************************************)
(* Derived queries.                                                        *)
(***************************************************************************)
\* The count taken over the active habits alone.
CompletedActiveCount(habits) ==
    Cardinality({i \in DOMAIN habits :
                    habits[i].is_active /\ habits[i].is_completed_today})

CompletedCount(habits) ==
    Cardinality({i \in DOMAIN habits : habits[i].is_completed_today})

\* The ratio rounded without the factor 100.
TodayProgressUnscaled(habits) ==
    IF Len(habits) = 0 THEN 0
    ELSE MathRound(NumDiv(CompletedCount(habits), Len(habits)))

TodayProgress(habits) ==
    IF Len(habits) = 0 THEN 0
    ELSE MathRound(NumMul(NumDiv(CompletedCount(habits), Len(habits)), 100))

\* Math.min(...list) and Math.max(...list) of a non-empty list of numbers.
RECURSIVE MathMin(_)
MathMin(list) ==
    IF Len(list) = 1 THEN list[1]
    ELSE LET m == MathMin(Tail(list))
         IN IF list[1] < m THEN list[1] ELSE m

RECURSIVE MathMax(_)
MathMax(list) ==
    IF Len(list) = 1 THEN list[1]
    ELSE LET m == MathMax(Tail(list))
         IN IF list[1] > m THEN list[1] ELSE m

StreakDataActiveOnly(habits) ==
    LET isActive(h) == h.is_active
        active == Filter(isActive, habits)
    IN [current |-> IF Len(active) > 0
                    THEN MathMin([i \in DOMAIN active |-> active[i].current_streak])
                    ELSE 0,
        best |-> IF Len(active) > 0
                 THEN MathMax([i \in DOMAIN active |-> active[i].best_streak])
                 ELSE 0]

StreakData(habits) ==
    [current |-> IF Len(habits) > 0
                 THEN MathMin([i \in DOMAIN habits |-> habits[i].current_streak])
                 ELSE 0,
     best |-> IF Len(habits) > 0
              THEN MathMax([i \in DOMAIN habits |-> habits[i].best_streak])
              ELSE 0]

(***************************************************************************)
(* Actions of the store.                                                   *)
(***************************************************************************)
\* setHabits that merges by id: the habits whose id the list does not name
\* are kept in front of the list.
setHabitsMerging(habits) ==
    LET unnamed(h) == \A j \in DOMAIN habits : habits[j].id # h.id
    IN Set("setHabits", NullId, IF state.habits # <<>> THEN 1 ELSE 0,
           [habits |-> Filter(unnamed, state.habits) \o habits])

\* Here lastOp.n is 1 when the collection that is replaced held a habit,
\* and 0 when it was empty.
setHabits(habits) ==
    Set("setHabits", NullId, IF state.habits # <<>> THEN 1 ELSE 0,
        [habits |-> habits])

\* addHabit as an upsert: a habit whose id is present is replaced in place.
AppendOrReplace(habits, habit) ==
    IF Matching(habits, habit.id) = {} THEN Append(habits, habit)
    ELSE [i \in DOMAIN habits |->
             IF habits[i].id = habit.id THEN habit ELSE habits[i]]

\* [...state.habits, habit]
AppendHabit(habits, habit) == Append(habits, habit)

addHabit(habit) ==
    /\ Len(state.habits) < MaxHabits
    /\ Set("addHabit", habit.id, Cardinality(Matching(state.habits, habit.id)),
           [habits |-> AppendHabit(state.habits, habit)])

\* The spread written the other way round: { ...updates, ...h }.
UpdateOneSpreadReversed(h, id, updates) ==
    IF h.id = id THEN Merge(updates, h) ELSE h

UpdateOne(h, id, updates) == IF h.id = id THEN Merge(h, updates) ELSE h

\* updateHabit that reports an id that matches no habit in the error slot.
updateHabitReporting(id, updates) ==
    LET upd(h) == UpdateOne(h, id, updates)
    IN IF Matching(state.habits, id) = {}
       THEN Set("updateHabit", id, 0, [error |-> "msg"])
       ELSE Set("updateHabit", id, Cardinality(Matching(state.habits, id)),
                [habits |-> Map(upd, state.habits)])

updateHabit(id, updates) ==
    LET upd(h) == UpdateOne(h, id, updates)
    IN Set("updateHabit", id, Cardinality(Matching(state.habits, id)),
           [habits |-> Map(upd, state.habits)])

\* removeHabit that takes its argument for a position in the list.
RemoveAtPosition(habits, id) ==
    [i \in 1..(Len(habits) - (IF id \in DOMAIN habits THEN 1 ELSE 0)) |->
        IF i < id THEN habits[i] ELSE habits[i + 1]]

\* removeHabit by findIndex and splice: the first match alone goes.
RemoveFirst(habits, id) ==
    IF Matching(habits, id) = {} THEN habits
    ELSE LET first == CHOOSE i \in Matching(habits, id) :
                         \A j \in Matching(habits, id) : i <= j
         IN [i \in 1..(Len(habits) - 1) |->
                IF i < first THEN habits[i] ELSE habits[i + 1]]

RemoveFrom(habits, id) ==
    LET keep(h) == h.id # id IN Filter(keep, habits)

\* removeHabit that clears the selection when the selected habit goes.
removeHabitDeselecting(id) ==
    Set("removeHabit", id, Cardinality(Matching(state.habits, id)),
        [habits |-> RemoveFrom(state.habits, id),
         selectedHabitId |-> IF state.selectedHabitId = id THEN NullId
                             ELSE state.selectedHabitId])

removeHabit(id) ==
    Set("removeHabit", id, Cardinality(Matching(state.habits, id)),
        [habits |-> RemoveFrom(state.habits, id)])

\* completeHabit guarded by the per-day flag (completes once a day).
CompleteOneOncePerDay(h, id) ==
    IF h.id = id /\ ~h.is_completed_today
    THEN [h EXCEPT !.is_completed_today = TRUE,
                   !.total_completions = h.total_completions + 1,
                   !.current_streak = h.current_streak + 1]
    ELSE h

\* completeHabit as a toggle: a completed habit is taken back.
CompleteOneToggle(h, id) ==
    IF h.id # id THEN h
    ELSE IF h.is_completed_today
    THEN [h EXCEPT !.is_completed_today = FALSE,
                   !.total_completions = h.total_completions - 1,
                   !.current_streak = h.current_streak - 1]
    ELSE [h EXCEPT !.is_completed_today = TRUE,
                   !.total_completions = h.total_completions + 1,
                   !.current_streak = h.current_streak + 1]

CompleteOne(h, id) ==
    IF h.id = id
    THEN [h EXCEPT !.is_completed_today = TRUE,
                   !.total_completions = h.total_completions + 1,
                   !.current_streak = h.current_streak + 1]
    ELSE h

completeHabit(id) ==
    LET comp(h) == CompleteOne(h, id)
    IN /\ \A i \in Matching(state.habits, id) :
              /\ state.habits[i].total_completions < MaxCount
              /\ state.habits[i].current_streak < MaxCount
       /\ Set("completeHabit", id, Cardinality(Matching(state.habits, id)),
              [habits |-> Map(comp, state.habits)])

setUser(user) == Set("setUser", NullId, 0, [user |-> user])
setWeeklySummary(summary) ==
    Set("setWeeklySummary", NullId, 0, [weeklySummary |-> summary])
setFailureAnalysis(analysis) ==
    Set("setFailureAnalysis", NullId, 0, [failureAnalysis |-> analysis])
setWeeklyProgress(progress) ==
    Set("setWeeklyProgress", NullId, 0, [weeklyProgress |-> progress])
\* setLoading that also clears the error of the previous load.
setLoadingClearingError(isLoading) ==
    Set("setLoading", NullId, 0, [isLoading |-> isLoading, error |-> Null])

setLoading(isLoading) == Set("setLoading", NullId, 0, [isLoading |-> isLoading])
setError(error) == Set("setError", NullId, 0, [error |-> error])
selectHabit(id) == Set("selectHabit", id, 0, [selectedHabitId |-> id])

\* A query that hands the state it read back to set: the slot is written.
QueryThroughSet(op, value) ==
    /\ ret' = value
    /\ lastOp' = [op |-> op, id |-> NullId, n |-> 0]
    /\ state' = state
    /\ storage' = setItem(state)
    /\ UNCHANGED <<inflight, isCompleting, components>>

\* A derived query: reads the state, returns a value, calls no set.
Query(op, value) ==
    /\ ret' = value
    /\ lastOp' = [op |-> op, id |-> NullId, n |-> 0]
    /\ UNCHANGED <<state, storage, inflight, isCompleting, components>>

getTodayProgress == Query("getTodayProgress", TodayProgress(state.habits))
getCompletedToday == Query("getCompletedToday", CompletedCount(state.habits))
getStreakData == Query("getStreakData", StreakData(state.habits))

(***************************************************************************)
(* The completion handler of the pages (Dashboard.handleCompleteHabit and  *)
(* Habits.handleComplete have the same text).  The handler is the one of   *)
(* the last render, so the habits it closes over are those of the store at *)
(* the click; a request is kept with them until its response arrives.      *)
(***************************************************************************)
\* The habit as the handler writes it back: { ...h, is_completed_today:
\* true, total_completions: h.total_completions + 1, current_streak:
\* h.current_streak + 1 } for the id, h otherwise.
UpdatedHabit(h, id) ==
    IF h.id = id
    THEN [h EXCEPT !.is_completed_today = TRUE,
                   !.total_completions = h.total_completions + 1,
                   !.current_streak = h.current_streak + 1]
    ELSE h

\* A handler that marks the habit in the store before it awaits the
\* request.
handleCompleteOptimistic(id) ==
    LET upd(h) == UpdatedHabit(h, id)
    IN /\ Matching(state.habits, id) # {}
       /\ Cardinality(inflight) < MaxInflight
       /\ \A i \in Matching(state.habits, id) :
             /\ state.habits[i].total_completions < MaxCount
             /\ state.habits[i].current_streak < MaxCount
       /\ inflight' = inflight \cup {[id |-> id, habits |-> state.habits]}
       /\ state' = Merge(state, [habits |-> Map(upd, state.habits)])
       /\ storage' = setItem(state')
       /\ lastOp' = [op |-> "handleComplete", id |-> id,
                     n |-> Cardinality(Matching(state.habits, id))]
       /\ ret' = Undefined
       /\ UNCHANGED components

\* The card of a habit with this id is tapped: the handler starts and
\* awaits api.completeHabit(id).
handleComplete(id) ==
    /\ Matching(state.habits, id) # {}
    /\ Cardinality(inflight) < MaxInflight
    /\ \A i \in Matching(state.habits, id) :
          /\ state.habits[i].total_completions < MaxCount
          /\ state.habits[i].current_streak < MaxCount
    /\ inflight' = inflight \cup {[id |-> id, habits |-> state.habits]}
    /\ lastOp' = [op |-> "handleComplete", id |-> id,
                  n |-> Cardinality(Matching(state.habits, id))]
    /\ ret' = Undefined
    /\ UNCHANGED <<state, storage, components>>

\* The request is fulfilled: the handler goes on after the await and
\* calls setHabits(updatedHabits).
handleCompleteResolved(r) ==
    LET upd(h) == UpdatedHabit(h, r.id)
    IN /\ r \in inflight
       /\ inflight' = inflight \ {r}
       /\ state' = Merge(state, [habits |-> Map(upd, r.habits)])
       /\ storage' = setItem(state')
       /\ lastOp' = [op |-> "handleComplete:resolved", id |-> r.id,
                     n |-> Cardinality(Matching(state.habits, r.id))]
       /\ ret' = Undefined
       /\ UNCHANGED components

\* A catch branch that also reports the failure in the error slot of the
\* store.
handleCompleteRejectedReporting(r) ==
    /\ r \in inflight
    /\ inflight' = inflight \ {r}
    /\ state' = Merge(state, [error |-> "msg"])
    /\ storage' = setItem(state')
    /\ lastOp' = [op |-> "handleComplete:rejected", id |-> r.id,
                  n |-> Cardinality(Matching(state.habits, r.id))]
    /\ ret' = Undefined
    /\ UNCHANGED components

\* The request is rejected: the catch branch shows a toast.
handleCompleteRejected(r) ==
    /\ r \in inflight
    /\ inflight' = inflight \ {r}
    /\ lastOp' = [op |-> "handleComplete:rejected", id |-> r.id,
                  n |-> Cardinality(Matching(state.habits, r.id))]
    /\ ret' = Undefined
    /\ UNCHANGED <<state, storage, components>>

(***************************************************************************)
(* HabitCard.  The cards of a page are keyed by habit.id; isCompleting     *)
(* holds the ids of the cards whose isCompleting state is true.  onComplete *)
(* is the completion handler of the page.                                  *)
(***************************************************************************)
\* A card that looks at the habit's flag alone.
HabitCard_handleCompleteFlagOnly(id) ==
    /\ \E i \in Matching(state.habits, id) :
          ~state.habits[i].is_completed_today
    /\ isCompleting' = isCompleting \cup {id}
    /\ handleComplete(id)

\* The check mark of the card is tapped: return if the habit is completed
\* today or isCompleting; else setIsCompleting(true) and await
\* onComplete(habit.id).
HabitCard_handleComplete(id) ==
    /\ \E i \in Matching(state.habits, id) :
          ~state.habits[i].is_completed_today
    /\ id \notin isCompleting
    /\ isCompleting' = isCompleting \cup {id}
    /\ handleComplete(id)

\* onComplete settles (the handler of the page catches a rejection itself)
\* and the finally branch runs setIsCompleting(false).
HabitCard_finally(r) ==
    /\ \/ handleCompleteResolved(r)
       \/ handleCompleteRejected(r)
    /\ isCompleting' = isCompleting \ {r.id}

(***************************************************************************)
(* App.loadData.  fetches holds the runs of loadData that still have a     *)
(* request under way, oldest first.  A run keeps the status and the value  *)
(* of api.getHabits() and of api.getUserProfile(), and overlapped, which   *)
(* tells whether another run had requests under way during its life.  The  *)
(* code after the await runs in the step in which Promise.all is decided:  *)
(* when the second request is fulfilled, or when the first one is          *)
(* rejected.                                                               *)
(***************************************************************************)
LoadError == "Ne udalos' zagruzit' dannye"

\* The responses of api.getHabits: with a list of habits, or without one.
EmptyResponse == [k \in {} |-> Null]
HabitsResponses == {[habits |-> ProgressList(1, 0)], EmptyResponse}
UserResponses == UserInputs

NewRun(overlapped) ==
    [habits |-> [status |-> "pending", value |-> EmptyResponse],
     user |-> [status |-> "pending", value |-> Null],
     overlapped |-> overlapped]

Requests == {"habits", "user"}

\* Promise.all([...]) of the run is fulfilled or rejected.
Decided(run) ==
    \/ \E q \in Requests : run[q].status = "rejected"
    \/ \A q \in Requests : run[q].status = "fulfilled"

\* No request of the run is under way.
Settled(run) == \A q \in Requests : run[q].status # "pending"

\* habitsData.habits || []
HabitsOrEmpty(habitsData) ==
    IF "habits" \in DOMAIN habitsData THEN habitsData.habits ELSE <<>>

\* A load that clears the error of an earlier load when it succeeds.
LoadOutcomeClearingError(run) ==
    IF \E q \in Requests : run[q].status = "rejected"
    THEN [error |-> LoadError, isLoading |-> FALSE]
    ELSE [habits |-> HabitsOrEmpty(run.habits.value),
          user |-> run.user.value, error |-> Null, isLoading |-> FALSE]

\* A load whose setLoading(false) ends the try block.
LoadOutcomeNoFinally(run) ==
    IF \E q \in Requests : run[q].status = "rejected"
    THEN [error |-> LoadError]
    ELSE [habits |-> HabitsOrEmpty(run.habits.value),
          user |-> run.user.value, isLoading |-> FALSE]

\* What the code after the await sets in the store for a decided run:
\* catch and finally, or the rest of try and finally.
LoadOutcome(run) ==
    IF \E q \in Requests : run[q].status = "rejected"
    THEN [error |-> LoadError, isLoading |-> FALSE]
    ELSE [habits |-> HabitsOrEmpty(run.habits.value),
          user |-> run.user.value, isLoading |-> FALSE]

\* loadData is called: setLoading(true), then both requests are issued.
loadData ==
    /\ Len(fetches) < MaxLoads
    /\ state' = Merge(state, [isLoading |-> TRUE])
    /\ storage' = setItem(state')
    /\ fetches' = Append([k \in DOMAIN fetches |->
                             [fetches[k] EXCEPT !.overlapped = TRUE]],
                         NewRun(fetches # <<>>))
    /\ lastOp' = [op |-> "loadData", id |-> NullId, n |-> Len(fetches')]
    /\ ret' = Undefined
    /\ UNCHANGED <<inflight, isCompleting, assistant, chat, form>>

\* Request q of run k settles with a status and a value.
fetchSettled(k, q, status, value) ==
    LET run == fetches[k]
        after == [run EXCEPT ![q] = [status |-> status, value |-> value]]
        continues == ~Decided(run) /\ Decided(after)
    IN /\ run[q].status = "pending"
       /\ fetches' = IF Settled(after)
                     THEN [j \in 1..(Len(fetches) - 1) |->
                              IF j < k THEN fetches[j] ELSE fetches[j + 1]]
                     ELSE [fetches EXCEPT ![k] = after]
       /\ state' = IF continues THEN Merge(state, LoadOutcome(after))
                   ELSE state
       /\ storage' = IF continues THEN setItem(state') ELSE storage
       /\ lastOp' = [op |-> IF ~continues THEN "loadData:settled"
                            ELSE IF status = "rejected" THEN "loadData:catch"
                            ELSE "loadData:try",
                     id |-> NullId, n |-> k]
       /\ ret' = Undefined
       /\ UNCHANGED <<inflight, isCompleting, assistant, chat, form>>

(***************************************************************************)
(* The AIAssistant page: its useState values, and pending, the number of   *)
(* api.getWeeklySummary and of api.analyzeFailures requests under way.     *)
(***************************************************************************)
InitialAssistant ==
    [weeklySummary |-> Null, failureAnalysis |-> Null,
     showFailureModal |-> FALSE, isLoading |-> FALSE,
     pending |-> [summary |-> 0, analysis |-> 0]]

\* habits.some((h) => h.current_streak === 0 && h.total_completions > 0)
hasFailures ==
    \E i \in DOMAIN state.habits :
       /\ state.habits[i].current_streak = 0
       /\ state.habits[i].total_completions > 0

AssistantStep(op) ==
    /\ lastOp' = [op |-> op, id |-> NullId,
                  n |-> assistant'.pending.summary
                        + assistant'.pending.analysis]
    /\ ret' = Undefined
    /\ UNCHANGED <<state, storage, inflight, isCompleting, fetches, chat,
                   form>>

\* The button of the WeeklySummaryCard, rendered while the page is not
\* loading and has no summary: setIsLoading(true), then the request.
loadWeeklySummary ==
    /\ ~assistant.isLoading
    /\ assistant.weeklySummary = Null
    /\ ~assistant.showFailureModal
    /\ assistant.pending.summary + assistant.pending.analysis < MaxRequests
    /\ assistant' = [assistant EXCEPT !.isLoading = TRUE,
                                      !.pending.summary = @ + 1]
    /\ AssistantStep("loadWeeklySummary")

\* api.getWeeklySummary() is fulfilled: setWeeklySummary(summary), finally.
loadWeeklySummaryResolved(summary) ==
    /\ assistant.pending.summary > 0
    /\ assistant' = [assistant EXCEPT !.weeklySummary = summary,
                                      !.isLoading = FALSE,
                                      !.pending.summary = @ - 1]
    /\ AssistantStep("loadWeeklySummary:resolved")

\* api.getWeeklySummary() is rejected: catch, finally.
loadWeeklySummaryRejected ==
    /\ assistant.pending.summary > 0
    /\ assistant' = [assistant EXCEPT !.isLoading = FALSE,
                                      !.pending.summary = @ - 1]
    /\ AssistantStep("loadWeeklySummary:rejected")

\* The button shown when hasFailures: setIsLoading(true), then the request.
loadFailureAnalysis ==
    /\ hasFailures
    /\ ~assistant.showFailureModal
    /\ assistant.pending.summary + assistant.pending.analysis < MaxRequests
    /\ assistant' = [assistant EXCEPT !.isLoading = TRUE,
                                      !.pending.analysis = @ + 1]
    /\ AssistantStep("loadFailureAnalysis")

\* api.analyzeFailures() is fulfilled: setFailureAnalysis(analysis),
\* setShowFailureModal(true), finally.
loadFailureAnalysisResolved(analysis) ==
    /\ assistant.pending.analysis > 0
    /\ assistant' = [assistant EXCEPT !.failureAnalysis = analysis,
                                      !.showFailureModal = TRUE,
                                      !.isLoading = FALSE,
                                      !.pending.analysis = @ - 1]
    /\ AssistantStep("loadFailureAnalysis:resolved")

\* api.analyzeFailures() is rejected: catch, finally.
loadFailureAnalysisRejected ==
    /\ assistant.pending.analysis > 0
    /\ assistant' = [assistant EXCEPT !.isLoading = FALSE,
                                      !.pending.analysis = @ - 1]
    /\ AssistantStep("loadFailureAnalysis:rejected")

\* onClose of the FailureAnalysisModal.
closeFailureModal ==
    /\ assistant.showFailureModal
    /\ assistant' = [assistant EXCEPT !.showFailureModal = FALSE]
    /\ AssistantStep("setShowFailureModal")

(***************************************************************************)
(* The AIChat dialog.  A text is a sequence of tokens, " " being white     *)
(* space; pending holds the api.chatWithAI requests under way.             *)
(***************************************************************************)
Space == " "
Welcome == <<"Privet!", Space, "Ya", Space, "tvoy", Space, "AI-pomoshchnik">>
Apology == <<"Izvini,", Space, "ya", Space, "vremenno", Space, "nedostupen.">>
ChatInputs ==
    {<<>>, <<Space>>, <<"hi">>, <<Space, "hi", Space>>, <<"a", Space, "b">>}
ReplyInputs == {<<"ok">>}

RECURSIVE TrimStart(_)
TrimStart(text) ==
    IF text # <<>> /\ Head(text) = Space THEN TrimStart(Tail(text)) ELSE text

RECURSIVE TrimEnd(_)
TrimEnd(text) ==
    IF text # <<>> /\ text[Len(text)] = Space
    THEN TrimEnd(SubSeq(text, 1, Len(text) - 1))
    ELSE text

\* String.prototype.trim
Trim(text) == TrimEnd(TrimStart(text))

Message(role, content) == [role |-> role, content |-> content]

InitialChat ==
    [messages |-> <<Message("assistant", Welcome)>>, input |-> <<>>,
     isLoading |-> FALSE, pending |-> <<>>]

ChatStep(op) ==
    /\ lastOp' = [op |-> op, id |-> NullId, n |-> Len(chat'.messages)]
    /\ ret' = Undefined
    /\ UNCHANGED <<state, storage, inflight, isCompleting, fetches, assistant,
                   form>>

\* onChange of the input, which is disabled while isLoading.
setInput(value) ==
    /\ ~chat.isLoading
    /\ chat' = [chat EXCEPT !.input = value]
    /\ ChatStep("setInput")

\* handleSend up to its await, testing the input as typed.
handleSendUntrimmed ==
    /\ Len(chat.messages) + 2 * (Len(chat.pending) + 1) <= MaxMessages
    /\ IF chat.input = <<>> \/ chat.isLoading
       THEN /\ chat' = chat
            /\ ChatStep("handleSend:ignored")
       ELSE /\ chat' = [chat EXCEPT
                          !.messages = Append(@, Message("user",
                                                         Trim(chat.input))),
                          !.input = <<>>,
                          !.isLoading = TRUE,
                          !.pending = Append(@, Trim(chat.input))]
            /\ ChatStep("handleSend")

\* handleSend up to its await.
handleSend ==
    /\ Len(chat.messages) + 2 * (Len(chat.pending) + 1) <= MaxMessages
    /\ IF Trim(chat.input) = <<>> \/ chat.isLoading
       THEN /\ chat' = chat
            /\ ChatStep("handleSend:ignored")
       ELSE /\ chat' = [chat EXCEPT
                          !.messages = Append(@, Message("user",
                                                         Trim(chat.input))),
                          !.input = <<>>,
                          !.isLoading = TRUE,
                          !.pending = Append(@, Trim(chat.input))]
            /\ ChatStep("handleSend")

\* api.chatWithAI is fulfilled: the reply is appended, finally.
handleSendResolved(k, message) ==
    /\ k \in DOMAIN chat.pending
    /\ chat' = [chat EXCEPT
                  !.messages = Append(@, Message("assistant", message)),
                  !.isLoading = FALSE,
                  !.pending = [i \in 1..(Len(@) - 1) |->
                                  IF i < k THEN @[i] ELSE @[i + 1]]]
    /\ ChatStep("handleSend:resolved")

\* api.chatWithAI is rejected: the apology is appended, finally.
handleSendRejected(k) ==
    /\ k \in DOMAIN chat.pending
    /\ chat' = [chat EXCEPT
                  !.messages = Append(@, Message("assistant", Apology)),
                  !.isLoading = FALSE,
                  !.pending = [i \in 1..(Len(@) - 1) |->
                                  IF i < k THEN @[i] ELSE @[i + 1]]]
    /\ ChatStep("handleSend:rejected")

(***************************************************************************)
(* The HabitForm: name and suggestion are its useState values; a name is   *)
(* a sequence of characters.  pending holds the api.suggestHabit requests  *)
(* under way, each with the value it was issued for and its number in the  *)
(* order of issue; issued counts the requests issued so far.  A result     *)
(* carries the number of its request; the null suggestion is NoSuggestion, *)
(* with number 0.                                                          *)
(***************************************************************************)
NameInputs ==
    {<<"r", "u">>, <<"r", "u", "n">>, <<"r", "u", "n", "s">>}
NoSuggestion == [request |-> 0, suggested_name |-> <<>>]
SuggestResult(r) ==
    [request |-> r.request, suggested_name |-> Append(r.value, "!")]

InitialForm ==
    [name |-> <<>>, suggestion |-> NoSuggestion, pending |-> {}, issued |-> 0]

FormStep(op, n) ==
    /\ lastOp' = [op |-> op, id |-> NullId, n |-> n]
    /\ ret' = Undefined
    /\ UNCHANGED <<state, storage, inflight, isCompleting, fetches, assistant,
                   chat>>

\* handleNameChange up to its await.
handleNameChange(value) ==
    /\ IF Len(value) >= 3 /\ form.suggestion = NoSuggestion
       THEN /\ form.issued < MaxSuggests
            /\ form' = [form EXCEPT
                          !.name = value,
                          !.issued = @ + 1,
                          !.pending = @ \cup {[request |-> form.issued + 1,
                                               value |-> value]}]
       ELSE form' = [form EXCEPT !.name = value]
    /\ FormStep("handleNameChange", form'.issued)

\* api.suggestHabit(value) is fulfilled: setSuggestion(result).
suggestHabitResolved(r) ==
    /\ r \in form.pending
    /\ form' = [form EXCEPT !.suggestion = SuggestResult(r),
                            !.pending = @ \ {r}]
    /\ FormStep("suggestHabit:resolved", r.request)

\* api.suggestHabit(value) is rejected: the error is ignored.
suggestHabitRejected(r) ==
    /\ r \in form.pending
    /\ form' = [form EXCEPT !.pending = @ \ {r}]
    /\ FormStep("suggestHabit:rejected", r.request)

\* The button of the suggestion panel, rendered while a suggestion is shown.
applySuggestion ==
    /\ form.suggestion # NoSuggestion
    /\ form' = [form EXCEPT !.name = form.suggestion.suggested_name,
                            !.suggestion = NoSuggestion]
    /\ FormStep("applySuggestion", form.suggestion.request)

\* The fields of the state that are not persisted.
SessionOnly == DOMAIN InitialState \ DOMAIN partialize(InitialState)

\* The application is closed and started again: the module is evaluated
\* anew and the store is seeded from the slot.  Here lastOp.n keeps the
\* number of session-only fields that were set when the application closed.
\* The requests of the closed application have no handler to return to.
Restart ==
    /\ state' = Hydrate(storage)
    /\ inflight' = {}
    /\ isCompleting' = {}
    /\ fetches' = <<>>
    /\ assistant' = InitialAssistant
    /\ chat' = InitialChat
    /\ form' = InitialForm
    /\ lastOp' = [op |-> "restart", id |-> NullId,
                  n |-> Cardinality({k \in SessionOnly :
                                        state[k] # InitialState[k]})]
    /\ ret' = Undefined
    /\ UNCHANGED storage

Init ==
    /\ storage = EmptyStorage
    /\ state = Hydrate(storage)
    /\ lastOp = [op |-> "create", id |-> NullId, n |-> 0]
    /\ ret = Undefined
    /\ inflight = {}
    /\ isCompleting = {}
    /\ fetches = <<>>
    /\ assistant = InitialAssistant
    /\ chat = InitialChat
    /\ form = InitialForm

HabitOps(lists, habits, updates) ==
    \/ \E list \in lists : setHabits(list)
    \/ \E habit \in habits : addHabit(habit)
    \/ \E id \in Ids, upd \in updates : updateHabit(id, upd)
    \/ \E id \in Ids : removeHabit(id)
    \/ \E id \in Ids : completeHabit(id)

Setters ==
    \/ \E user \in UserInputs : setUser(user)
    \/ \E summary \in SummaryInputs : setWeeklySummary(summary)
    \/ \E analysis \in AnalysisInputs : setFailureAnalysis(analysis)
    \/ \E progress \in ProgressInputs : setWeeklyProgress(progress)
    \/ \E isLoading \in BOOLEAN : setLoading(isLoading)
    \/ \E error \in ErrorInputs : setError(error)
    \/ \E id \in SelectInputs : selectHabit(id)

Queries ==
    \/ getTodayProgress
    \/ getCompletedToday
    \/ getStreakData

\* The whole store: every action, and restarts of the application.
Next ==
    \/ HabitOps(SessionLists, SessionHabits, SessionUpdates)
    \/ Setters
    \/ Queries
    \/ Restart
Spec == Init /\ [][Next]_vars

\* The habit collection alone, driven by its five actions and read by the
\* derived queries.
NextHabits ==
    \/ HabitOps(ListInputs, HabitInputs, UpdateInputs)
    \/ Queries
SpecHabits == Init /\ [][NextHabits]_vars

\* Today's progress over the collections a load can bring in.
NextProgress ==
    \/ \E list \in ProgressLists : setHabits(list)
    \/ getTodayProgress
SpecProgress == Init /\ [][NextProgress]_vars

\* The pages: the habits are loaded, cards are tapped, responses arrive in
\* any order.
PageLists == {ProgressList(2, 0)}
NextPages ==
    \/ \E list \in PageLists : setHabits(list)
    \/ \E id \in Ids : handleComplete(id) /\ UNCHANGED isCompleting
    \/ \E r \in inflight :
          handleCompleteResolved(r) /\ UNCHANGED isCompleting
    \/ \E r \in inflight :
          handleCompleteRejected(r) /\ UNCHANGED isCompleting
SpecPages == Init /\ [][NextPages]_vars

\* A page with its cards: every completion goes through the card.  The
\* loads bring in the habits of Ids, some of them completed today, so
\* that their cards stay mounted.
CardLists ==
    {[i \in 1..n |-> Habit(i, TRUE, 0, 0, 0, i \in done)] :
        n \in Cardinality(Ids)..MaxHabits, done \in SUBSET Ids}
NextCards ==
    \/ \E list \in CardLists : setHabits(list)
    \/ \E id \in Ids : HabitCard_handleComplete(id)
    \/ \E r \in inflight : HabitCard_finally(r)
SpecCards == Init /\ [][NextCards]_vars

\* The application loads its data, possibly again while a load is under
\* way; every request that was issued settles in the end.
fetchSettles ==
    \E k \in DOMAIN fetches :
       \/ \E r \in HabitsResponses : fetchSettled(k, "habits", "fulfilled", r)
       \/ \E u \in UserResponses : fetchSettled(k, "user", "fulfilled", u)
       \/ fetchSettled(k, "habits", "rejected", EmptyResponse)
       \/ fetchSettled(k, "user", "rejected", Null)
NextLoad ==
    \/ loadData
    \/ fetchSettles
SpecLoad == Init /\ [][NextLoad]_vars

\* The AIAssistant page over the habits of the store.
AssistantLists == {<<h>> : h \in HabitInputs}
NextAssistant ==
    \/ \E list \in AssistantLists : setHabits(list)
    \/ loadWeeklySummary
    \/ \E summary \in SummaryInputs : loadWeeklySummaryResolved(summary)
    \/ loadWeeklySummaryRejected
    \/ loadFailureAnalysis
    \/ \E analysis \in AnalysisInputs : loadFailureAnalysisResolved(analysis)
    \/ loadFailureAnalysisRejected
    \/ closeFailureModal
SpecAssistant == Init /\ [][NextAssistant]_vars

\* The AIChat dialog.
NextChat ==
    \/ \E value \in ChatInputs : setInput(value)
    \/ handleSend
    \/ \E k \in DOMAIN chat.pending, message \in ReplyInputs :
          handleSendResolved(k, message)
    \/ \E k \in DOMAIN chat.pending : handleSendRejected(k)
SpecChat == Init /\ [][NextChat]_vars

\* The HabitForm.
NextForm ==
    \/ \E value \in NameInputs : handleNameChange(value)
    \/ \E r \in form.pending : suggestHabitResolved(r)
    \/ \E r \in form.pending : suggestHabitRejected(r)
    \/ applySuggestion
SpecForm == Init /\ [][NextForm]_vars
SpecLoadFair == SpecLoad /\ WF_vars(fetchSettles)

(***************************************************************************)
(* Properties.                                                             *)
(***************************************************************************)
Habits == state.habits

\* C1: completeHabit(id) sets is_completed_today and adds exactly 1 to
\* total_completions and to current_streak of every habit whose id matches,
\* whether or not the habit was already completed today; so n calls in a
\* row add n.
C1_CompleteAddsOne ==
    [][\A id \in Ids :
          completeHabit(id) =>
             /\ DOMAIN state'.habits = DOMAIN Habits
             /\ \A i \in DOMAIN Habits :
                   Habits[i].id = id =>
                      /\ state'.habits[i].is_completed_today
                      /\ state'.habits[i].total_completions
                            = Habits[i].total_completions + 1
                      /\ state'.habits[i].current_streak
                            = Habits[i].current_streak + 1]_vars

\* C1 witness: the habit loaded with all counters 0 has been completed by
\* the last call for the second time.
C1_Witness ==
    /\ lastOp.op = "completeHabit"
    /\ lastOp.n >= 1
    /\ \E i \in DOMAIN Habits :
          /\ Habits[i].id = lastOp.id
          /\ Habits[i].best_streak = 0
          /\ Habits[i].is_completed_today
          /\ Habits[i].total_completions = 2
          /\ Habits[i].current_streak = 2

\* C2: updateHabit, removeHabit and completeHabit with an id that matches
\* no habit leave the collection and every other field of the state as
\* they were.
C2_UnmatchedIdNoOp ==
    [][\A id \in Ids :
          (/\ Matching(Habits, id) = {}
           /\ \/ removeHabit(id)
              \/ completeHabit(id)
              \/ \E upd \in SessionUpdates \cup UpdateInputs :
                    updateHabit(id, upd))
          => state' = state]_vars

\* C2 witness: a removeHabit of an absent id has run on a non-empty
\* collection with other fields set.
C2_Witness ==
    /\ lastOp.op = "removeHabit"
    /\ lastOp.n = 0
    /\ Len(Habits) = MaxHabits
    /\ state.error # Null
    /\ state.user # Null
    /\ state.selectedHabitId # NullId
    /\ state.isLoading

\* round(100 * c / n), halves upwards, in exact arithmetic.
RoundedPercent(c, n) == (200 * c + n) \div (2 * n)

\* C3: getTodayProgress returns an integer in 0..100 equal to
\* round(100 * completed / total), and 0 for the empty collection.
C3_TodayProgress ==
    lastOp.op = "getTodayProgress" =>
       /\ ret \in 0..100
       /\ Habits = <<>> => ret = 0
       /\ Habits # <<>> =>
             ret = RoundedPercent(CompletedCount(Habits), Len(Habits))

\* C4: getStreakData returns the least current_streak and the greatest
\* best_streak over all habits, archived ones included, and 0 and 0 for
\* the empty collection.
C4_StreakData ==
    lastOp.op = "getStreakData" =>
       IF Habits = <<>>
       THEN ret = [current |-> 0, best |-> 0]
       ELSE /\ \E i \in DOMAIN Habits : ret.current = Habits[i].current_streak
            /\ \A i \in DOMAIN Habits : ret.current <= Habits[i].current_streak
            /\ \E i \in DOMAIN Habits : ret.best = Habits[i].best_streak
            /\ \A i \in DOMAIN Habits : ret.best >= Habits[i].best_streak

\* C4 witness: the query has answered on a collection whose archived habit
\* alone holds the least current streak and the greatest best streak.
C4_Witness ==
    /\ lastOp.op = "getStreakData"
    /\ \E i \in DOMAIN Habits :
          /\ ~Habits[i].is_active
          /\ ret.current = Habits[i].current_streak
          /\ ret.best = Habits[i].best_streak
          /\ \A j \in DOMAIN Habits \ {i} :
                /\ Habits[j].is_active
                /\ Habits[j].current_streak > ret.current
                /\ Habits[j].best_streak < ret.best

MutationOps ==
    {"setHabits", "addHabit", "updateHabit", "removeHabit", "completeHabit",
     "setUser", "setWeeklySummary", "setFailureAnalysis", "setWeeklyProgress",
     "setLoading", "setError", "selectHabit"}

\* C5: a restart gives back the user and the habits of the state before it
\* and resets weeklySummary, failureAnalysis, weeklyProgress, isLoading,
\* error and selectedHabitId to their defaults, whatever they were.
C5_RestartRoundTrip ==
    [][lastOp'.op = "restart" =>
          /\ state'.user = state.user
          /\ state'.habits = state.habits
          /\ state'.weeklySummary = Null
          /\ state'.failureAnalysis = Null
          /\ state'.weeklyProgress = Null
          /\ state'.isLoading = FALSE
          /\ state'.error = Null
          /\ state'.selectedHabitId = NullId]_vars

\* C5 witness: the application has restarted from a state in which every
\* session-only field was set, and has a user and habits.
C5_Witness ==
    /\ lastOp.op = "restart"
    /\ lastOp.n = Cardinality(SessionOnly)
    /\ state.user # Null
    /\ Habits # <<>>
    /\ \E i \in DOMAIN Habits : Habits[i].total_completions > 0

\* C6: once a mutation has run, the slot 'habitmax-storage' holds exactly
\* the user and the habits of the current state, also after a mutation of
\* a session-only field.
C6_PersistedSnapshot ==
    /\ lastOp.op \in MutationOps => StorageKey \in DOMAIN storage
    /\ StorageKey \in DOMAIN storage =>
          /\ DOMAIN storage = {StorageKey}
          /\ storage[StorageKey].state
                = [user |-> state.user, habits |-> state.habits]

\* C6 witness: a session-only mutation has run while the state holds a
\* user and completed habits.
C6_Witness ==
    /\ lastOp.op = "setError"
    /\ state.error # Null
    /\ state.user # Null
    /\ \E i \in DOMAIN Habits : Habits[i].is_completed_today

\* The ids that name exactly one habit of the collection.
UniqueIds(habits) ==
    {id \in Ids : Cardinality(Matching(habits, id)) = 1}

TotalOf(habits, id) ==
    habits[CHOOSE i \in Matching(habits, id) : TRUE].total_completions

C8_BestIsMaximum ==
    [][\A id \in Ids :
          (/\ completeHabit(id)
           /\ \A i \in DOMAIN Habits :
                 /\ Habits[i].current_streak >= 0
                 /\ Habits[i].best_streak >= Habits[i].current_streak)
          => \A i \in DOMAIN state'.habits :
                state'.habits[i].best_streak
                   >= state'.habits[i].current_streak]_vars

\* C9 as stated: updateHabit(id, fields) on a present id merges the fields
\* into one habit and leaves all the others, the length and the order as
\* they were.
C9_UpdatesSingleHabit ==
    [][\A id \in Ids, upd \in UpdateInputs \cup SessionUpdates :
          (updateHabit(id, upd) /\ Matching(Habits, id) # {})
          => /\ Len(state'.habits) = Len(Habits)
             /\ \E i \in Matching(Habits, id) :
                   /\ state'.habits[i] = Merge(Habits[i], upd)
                   /\ \A j \in DOMAIN Habits \ {i} :
                         state'.habits[j] = Habits[j]]_vars

\* C9 amended: updateHabit(id, fields) merges the fields into every habit
\* whose id is id (one habit when ids are unique): each of them takes the
\* values of fields and keeps every other field, and the habits with
\* another id, the length and the order of the collection are unchanged.
C9_UpdatesEveryMatch ==
    [][\A id \in Ids, upd \in UpdateInputs \cup SessionUpdates :
          updateHabit(id, upd)
          => /\ DOMAIN state'.habits = DOMAIN Habits
             /\ \A i \in DOMAIN Habits :
                   IF Habits[i].id = id
                   THEN /\ DOMAIN state'.habits[i] = DOMAIN Habits[i]
                        /\ \A f \in DOMAIN upd :
                              state'.habits[i][f] = upd[f]
                        /\ \A f \in DOMAIN Habits[i] \ DOMAIN upd :
                              state'.habits[i][f] = Habits[i][f]
                   ELSE state'.habits[i] = Habits[i]]_vars

\* C9 witness: an updateHabit has run on an id that two habits carried;
\* both are archived now and differ in their counters.
C9_Witness ==
    /\ lastOp.op = "updateHabit"
    /\ lastOp.n = 2
    /\ \E i, j \in Matching(Habits, lastOp.id) :
          /\ i # j
          /\ ~Habits[i].is_active
          /\ ~Habits[j].is_active
          /\ Habits[i].current_streak # Habits[j].current_streak

\* The number of habits up to position i whose id is not id.
Rank(habits, id, i) ==
    Cardinality({j \in 1..i : habits[j].id # id})

\* C10 as stated: removeHabit(id) on a present id shortens the collection
\* by exactly 1, leaves no habit with that id, and keeps the other habits
\* with their values in their order.
C10_RemovesSingleHabit ==
    [][\A id \in Ids :
          (removeHabit(id) /\ Matching(Habits, id) # {})
          => /\ Len(state'.habits) = Len(Habits) - 1
             /\ Matching(state'.habits, id) = {}
             /\ \A i \in DOMAIN Habits \ Matching(Habits, id) :
                   /\ Rank(Habits, id, i) \in DOMAIN state'.habits
                   /\ state'.habits[Rank(Habits, id, i)] = Habits[i]]_vars

\* C10 amended: removeHabit(id) removes every habit whose id is id (one
\* habit when ids are unique): the collection gets shorter by the number of
\* habits that matched, no habit with that id remains, and the other
\* habits keep their values and their order.
C10_RemovesEveryMatch ==
    [][\A id \in Ids :
          removeHabit(id)
          => /\ Len(state'.habits)
                  = Len(Habits) - Cardinality(Matching(Habits, id))
             /\ Matching(state'.habits, id) = {}
             /\ \A i \in DOMAIN Habits \ Matching(Habits, id) :
                   /\ Rank(Habits, id, i) \in DOMAIN state'.habits
                   /\ state'.habits[Rank(Habits, id, i)] = Habits[i]]_vars

\* C10 witness: a removeHabit has removed a habit and another one, with
\* completions of its own, is left.
C10_Witness ==
    /\ lastOp.op = "removeHabit"
    /\ lastOp.n >= 1
    /\ Len(Habits) = MaxHabits - 1
    /\ \E i \in DOMAIN Habits : Habits[i].total_completions > 0

\* C11: addHabit(habit) makes the collection longer by exactly 1, puts the
\* new habit last and leaves every habit that was present as it was and
\* where it was, whether or not its id was already present; so the order of
\* the collection is the order of the calls.
C11_AddAppends ==
    [][\A habit \in HabitInputs \cup SessionHabits :
          addHabit(habit) =>
             /\ Len(state'.habits) = Len(Habits) + 1
             /\ state'.habits[Len(state'.habits)] = habit
             /\ \A i \in DOMAIN Habits : state'.habits[i] = Habits[i]]_vars

\* C11 witness: the last call added a habit whose id was already present,
\* after that habit had been completed; both are in the collection, the
\* older one first.
C11_Witness ==
    /\ lastOp.op = "addHabit"
    /\ lastOp.n = 1
    /\ Len(Habits) = 2
    /\ Habits[1].id = lastOp.id
    /\ Habits[2].id = lastOp.id
    /\ Habits[1].total_completions > Habits[2].total_completions

\* The fields of the state other than the habit collection.
OtherFields == DOMAIN InitialState \ {"habits"}

\* C12: setHabits(list) makes the collection equal to list, whatever it
\* held before, and leaves user, weeklySummary, failureAnalysis,
\* weeklyProgress, isLoading, error and selectedHabitId as they were.
C12_SetHabitsReplaces ==
    [][\A list \in SessionLists \cup ListInputs :
          setHabits(list) =>
             /\ state'.habits = list
             /\ \A k \in OtherFields : state'[k] = state[k]]_vars

\* C12 witness: setHabits has replaced a collection that held a habit by
\* the empty list while every other field was set.
C12_Witness ==
    /\ lastOp.op = "setHabits"
    /\ lastOp.n = 1
    /\ Habits = <<>>
    /\ \A k \in OtherFields : state[k] # InitialState[k]

\* The setter of each field other than the habit collection.
SetterOf ==
    [user |-> "setUser", weeklySummary |-> "setWeeklySummary",
     failureAnalysis |-> "setFailureAnalysis",
     weeklyProgress |-> "setWeeklyProgress", isLoading |-> "setLoading",
     error |-> "setError", selectedHabitId |-> "selectHabit"]

\* C13: each of setUser, setWeeklySummary, setFailureAnalysis,
\* setWeeklyProgress, setLoading, setError and selectHabit sets its own
\* field to the given value and leaves every other field, the habit
\* collection included, unchanged; and while the store lives, each of these
\* fields changes in no step other than a call of its own setter.
C13_SettersOwnField ==
    [][/\ \A user \in UserInputs :
             setUser(user) => state' = [state EXCEPT !.user = user]
       /\ \A summary \in SummaryInputs :
             setWeeklySummary(summary)
                => state' = [state EXCEPT !.weeklySummary = summary]
       /\ \A analysis \in AnalysisInputs :
             setFailureAnalysis(analysis)
                => state' = [state EXCEPT !.failureAnalysis = analysis]
       /\ \A progress \in ProgressInputs :
             setWeeklyProgress(progress)
                => state' = [state EXCEPT !.weeklyProgress = progress]
       /\ \A isLoading \in BOOLEAN :
             setLoading(isLoading)
                => state' = [state EXCEPT !.isLoading = isLoading]
       /\ \A error \in ErrorInputs :
             setError(error) => state' = [state EXCEPT !.error = error]
       /\ \A id \in SelectInputs :
             selectHabit(id) => state' = [state EXCEPT !.selectedHabitId = id]
       /\ \A k \in OtherFields :
             (state'[k] # state[k] /\ lastOp'.op # "restart")
                => lastOp'.op = SetterOf[k]]_vars

\* C13 witness: setLoading(false) has run while the collection held a
\* completed habit and every other field was set.
C13_Witness ==
    /\ lastOp.op = "setLoading"
    /\ ~state.isLoading
    /\ \A k \in OtherFields \ {"isLoading"} : state[k] # InitialState[k]
    /\ \E i \in DOMAIN Habits : Habits[i].is_completed_today

QueryOps == {"getTodayProgress", "getCompletedToday", "getStreakData"}

\* C14: getTodayProgress, getCompletedToday and getStreakData are pure:
\* a call leaves every field of the state and the persisted slot as they
\* were, whatever was called before it, and the value it returns is fixed
\* by the habit collection, so that calls with no mutation in between
\* return the same value.
C14_QueriesPure ==
    [][lastOp'.op \in QueryOps =>
          /\ state' = state
          /\ storage' = storage
          /\ lastOp'.op = "getTodayProgress" => ret' = TodayProgress(Habits)
          /\ lastOp'.op = "getCompletedToday" => ret' = CompletedCount(Habits)
          /\ lastOp'.op = "getStreakData" => ret' = StreakData(Habits)
          /\ lastOp.op = lastOp'.op => ret' = ret]_vars

\* C14 witness: getCompletedToday has answered 1 on a state with an error
\* and a selection, and the slot still holds the habits of the state.
C14_Witness ==
    /\ lastOp.op = "getCompletedToday"
    /\ ret = 1
    /\ state.error # Null
    /\ state.selectedHabitId # NullId
    /\ storage[StorageKey].state.habits = Habits

\* A collection of one habit that is not completed today and whose
\* current_streak and total_completions are 0.
SingleFresh(habits) ==
    /\ Len(habits) = 1
    /\ ~habits[1].is_completed_today
    /\ habits[1].current_streak = 0
    /\ habits[1].total_completions = 0

\* The same collection after one completion.
SingleCompletedOnce(habits) ==
    /\ Len(habits) = 1
    /\ habits[1].is_completed_today
    /\ habits[1].current_streak = 1
    /\ habits[1].total_completions = 1

\* C15: on a collection of a single habit with counters 0 that is not
\* completed today getTodayProgress returns 0; completeHabit with its id
\* leaves the single habit with current_streak 1 and total_completions 1,
\* and on that collection getTodayProgress returns 100.
C15_SingleHabitScenario ==
    [][/\ (SingleFresh(Habits) /\ lastOp'.op = "getTodayProgress")
             => ret' = 0
       /\ (SingleFresh(Habits) /\ completeHabit(Habits[1].id))
             => SingleCompletedOnce(state'.habits)
       /\ (SingleCompletedOnce(Habits) /\ lastOp'.op = "getTodayProgress")
             => ret' = 100]_vars

\* C15 witness: the end of the scenario: getTodayProgress has returned 100
\* on the single habit, loaded with counters 0 and completed once.
C15_Witness ==
    /\ lastOp.op = "getTodayProgress"
    /\ ret = 100
    /\ SingleCompletedOnce(Habits)
    /\ Habits[1].best_streak = 0

\* C16: getCompletedToday returns the number of habits of the collection
\* whose is_completed_today is true, a number from 0 to the length of the
\* collection, in agreement with getTodayProgress: 0 goes with 0, all of a
\* non-empty collection with 100, and 1 of 2 habits with 50.
C16_CompletedToday ==
    lastOp.op = "getCompletedToday" =>
       /\ ret = Cardinality({i \in 1..Len(Habits) :
                                Habits[i].is_completed_today = TRUE})
       /\ ret \in 0..Len(Habits)
       /\ ret = 0 => TodayProgress(Habits) = 0
       /\ (ret = Len(Habits) /\ Habits # <<>>) => TodayProgress(Habits) = 100
       /\ (ret = 1 /\ Len(Habits) = 2) => TodayProgress(Habits) = 50

\* C16 witness: getCompletedToday has returned 1 on two habits of which
\* the archived one is completed and the active one is not.
C16_Witness ==
    /\ lastOp.op = "getCompletedToday"
    /\ ret = 1
    /\ Len(Habits) = 2
    /\ TodayProgress(Habits) = 50
    /\ \E i, j \in DOMAIN Habits :
          /\ ~Habits[i].is_active /\ Habits[i].is_completed_today
          /\ Habits[j].is_active /\ ~Habits[j].is_completed_today

C18_MutationsNeverSignal ==
    [][lastOp'.op \in MutationOps =>
          /\ ret' = Undefined
          /\ lastOp'.op # "setError" => state'.error = state.error
          /\ (lastOp'.op \in {"updateHabit", "removeHabit", "completeHabit"}
               /\ lastOp'.n = 0)
                => (ret' = Undefined /\ state'.error = state.error)]_vars

\* C18 witness: updateHabit has run with an id that matches none of the
\* habits of the collection, and the error slot is empty.
C18_Witness ==
    /\ lastOp.op = "updateHabit"
    /\ lastOp.n = 0
    /\ Habits # <<>>
    /\ state.error = Null
    /\ ret = Undefined

\* C19: the store does not reset is_completed_today by itself: a habit
\* whose flag is true is still in the collection, with its id and with the
\* flag true, after every step other than a setHabits or an updateHabit
\* (whose payloads may carry false) and a removeHabit of its own id:
\* after addHabit, completeHabit, a removeHabit of another id, every
\* setter, every query and a restart.
C19_FlagNotResetByStore ==
    [][lastOp'.op \notin {"setHabits", "updateHabit"} =>
          \A i \in DOMAIN Habits :
             Habits[i].is_completed_today =>
                IF lastOp'.op = "removeHabit"
                THEN Habits[i].id # lastOp'.id =>
                        LET j == Rank(Habits, lastOp'.id, i)
                        IN /\ j \in DOMAIN state'.habits
                           /\ state'.habits[j].id = Habits[i].id
                           /\ state'.habits[j].is_completed_today
                ELSE /\ i \in DOMAIN state'.habits
                     /\ state'.habits[i].id = Habits[i].id
                     /\ state'.habits[i].is_completed_today]_vars

\* C19 witness: an addHabit has run on a collection whose habit was
\* completed; the habit is still flagged, the new one is not.
C19_Witness ==
    /\ lastOp.op = "addHabit"
    /\ Len(Habits) = 2
    /\ Habits[1].is_completed_today
    /\ Habits[1].total_completions > 0
    /\ ~Habits[2].is_completed_today

\* C20: selectHabit(id) stores id and leaves the collection alone, whether
\* or not a habit of the collection has that id, and removeHabit and
\* setHabits leave selectedHabitId as it was; so selectedHabitId may name
\* a habit that is not, or no longer, in the collection.
C20_SelectionAdvisory ==
    [][/\ \A id \in SelectInputs :
             selectHabit(id) =>
                /\ state'.selectedHabitId = id
                /\ state'.habits = Habits
       /\ lastOp'.op \in {"removeHabit", "setHabits"}
             => state'.selectedHabitId = state.selectedHabitId]_vars

\* C20 witness: the selected habit has been removed by the last call and
\* selectedHabitId still names it.
C20_Witness ==
    /\ lastOp.op = "removeHabit"
    /\ lastOp.n >= 1
    /\ state.selectedHabitId = lastOp.id
    /\ Matching(Habits, state.selectedHabitId) = {}

\* C21: no lost update between concurrent completions: when the handler
\* was started for two distinct habits on the same collection and the
\* request of the first has been fulfilled, then after the request of the
\* second is fulfilled both habits are marked completed and each has
\* total_completions and current_streak 1 higher than at the start.
C21_NoLostUpdate ==
    [][\A r \in inflight :
          (/\ lastOp.op = "handleComplete:resolved"
           /\ lastOp.id # r.id
           /\ Habits = [i \in DOMAIN r.habits |->
                           UpdatedHabit(r.habits[i], lastOp.id)]
           /\ lastOp'.op = "handleComplete:resolved"
           /\ handleCompleteResolved(r))
          => \A i \in DOMAIN r.habits :
                r.habits[i].id \in {r.id, lastOp.id} =>
                   /\ state'.habits[i].is_completed_today
                   /\ state'.habits[i].total_completions
                         = r.habits[i].total_completions + 1
                   /\ state'.habits[i].current_streak
                         = r.habits[i].current_streak + 1]_vars

\* C22: a completion handler never overwrites newer data of the store:
\* when setHabits or addHabit has run after the handler was started, the
\* write of the handler at the response is completeHabit(id) applied to
\* the collection of the store at that time.
C22_NeverClobbers ==
    [][\A r \in inflight :
          (/\ lastOp.op \in {"setHabits", "addHabit"}
           /\ lastOp'.op = "handleComplete:resolved"
           /\ handleCompleteResolved(r))
          => state'.habits = [i \in DOMAIN Habits |->
                                 CompleteOne(Habits[i], r.id)]]_vars

\* C23: when api.completeHabit fails the handler changes nothing in the
\* store: the rejection leaves every field of the state and the slot as
\* they were, and when the handler is the only one under way and nothing
\* ran since its start, the habits are those it was started on.
C23_FailureLeavesStore ==
    [][\A r \in inflight :
          (/\ lastOp'.op = "handleComplete:rejected"
           /\ handleCompleteRejected(r))
          => /\ state' = state
             /\ storage' = storage
             /\ (/\ inflight = {r}
                 /\ lastOp.op = "handleComplete"
                 /\ lastOp.id = r.id)
                   => state'.habits = r.habits]_vars

\* C23 witness: the request for one habit has been rejected after the
\* other habit was completed: the other habit is marked, this one is not,
\* and the error slot is empty.
C23_Witness ==
    /\ lastOp.op = "handleComplete:rejected"
    /\ state.error = Null
    /\ \E i, j \in DOMAIN Habits :
          /\ Habits[i].id = lastOp.id
          /\ ~Habits[i].is_completed_today
          /\ Habits[i].total_completions = 0
          /\ Habits[j].is_completed_today
          /\ Habits[j].total_completions = 1

\* The requests under way that the card of habit id has started.
StartedBy(id) == {r \in inflight : r.id = id}

\* C24: a card calls onComplete only when its habit is not completed
\* today and no request that the card started is under way, so that a
\* card never has more than one request under way; isCompleting is true
\* exactly while the card's request is under way, and is false again once
\* the request has settled, fulfilled or rejected.
C24_CardGuard ==
    [][/\ lastOp'.op = "handleComplete" =>
             /\ \A i \in Matching(Habits, lastOp'.id) :
                   ~Habits[i].is_completed_today
             /\ StartedBy(lastOp'.id) = {}
             /\ lastOp'.id \notin isCompleting
       /\ lastOp'.op \in {"handleComplete:resolved", "handleComplete:rejected"}
             => lastOp'.id \notin isCompleting'
       /\ \A id \in Ids :
             /\ Cardinality({r \in inflight' : r.id = id}) <= 1
             /\ id \in isCompleting' <=> {r \in inflight' : r.id = id} # {}]_vars

\* C24 witness: the request of a card has been rejected while the request
\* of the other card is under way: the first card is no longer completing,
\* its habit is not completed, the other card still is.
C24_Witness ==
    /\ lastOp.op = "handleComplete:rejected"
    /\ lastOp.id \notin isCompleting
    /\ StartedBy(lastOp.id) = {}
    /\ \E id \in Ids \ {lastOp.id} :
          /\ id \in isCompleting
          /\ Cardinality(StartedBy(id)) = 1
    /\ \E i \in Matching(Habits, lastOp.id) : ~Habits[i].is_completed_today

\* C25: the load is all or nothing: the habits and the user change only in
\* the step in which both requests of a run are fulfilled, and then to the
\* values of the two responses while error stays as it was; when a request
\* is rejected the habits and the user stay as they were and error is set
\* to the message of the load.
C25_LoadAllOrNothing ==
    [][lastOp'.op \in {"loadData", "loadData:settled", "loadData:try",
                       "loadData:catch"} =>
          /\ (state'.habits # state.habits \/ state'.user # state.user)
                => lastOp'.op = "loadData:try"
          /\ lastOp'.op = "loadData:try" =>
                LET run == fetches[lastOp'.n]
                IN /\ \E q \in Requests : run[q].status = "fulfilled"
                   /\ \A q \in Requests : run[q].status # "rejected"
                   /\ run.habits.status = "fulfilled"
                         => state'.habits = HabitsOrEmpty(run.habits.value)
                   /\ run.user.status = "fulfilled"
                         => state'.user = run.user.value
                   /\ state'.habits \in
                         {HabitsOrEmpty(r) : r \in HabitsResponses}
                   /\ state'.user \in UserResponses
                   /\ state'.error = state.error
          /\ lastOp'.op = "loadData:catch" =>
                /\ state'.habits = state.habits
                /\ state'.user = state.user
                /\ state'.error = LoadError]_vars

\* C25 witness: a load has failed after an earlier one had succeeded: the
\* habits and the user of the earlier load are in the store with the
\* message of the load.
C25_Witness ==
    /\ lastOp.op = "loadData:catch"
    /\ state.error = LoadError
    /\ Habits # <<>>
    /\ state.user # Null
    /\ ~state.isLoading

\* C26 as stated: isLoading is true exactly while the requests of a
\* loadData run that no other run overlaps are under way.
C26_LoadingWhileOutstanding ==
    /\ \A k \in DOMAIN fetches :
          ~fetches[k].overlapped => state.isLoading
    /\ fetches = <<>> => ~state.isLoading

\* C26 amended: loadData sets isLoading before it issues the requests;
\* the step that decides Promise.all of a run (the second fulfilment or
\* the first rejection) sets it to false, so that it is false when no
\* undecided run is left and, for a run that no other run overlaps, true
\* exactly until the run is decided, also when a request of the run is
\* still under way after a rejection; and as every request settles,
\* isLoading is false again some time after it was true.
C26_LoadingUntilDecided ==
    /\ [][/\ lastOp'.op = "loadData" =>
                /\ state'.isLoading
                /\ Len(fetches') = Len(fetches) + 1
          /\ lastOp'.op \in {"loadData:try", "loadData:catch"}
                => ~state'.isLoading
          /\ lastOp'.op = "loadData:settled"
                => state'.isLoading = state.isLoading]_vars
    /\ []((state.isLoading
              => (\E k \in DOMAIN fetches : ~Decided(fetches[k])))
           /\ (\A j \in DOMAIN fetches :
                  ~fetches[j].overlapped
                     => (state.isLoading <=> ~Decided(fetches[j]))))
    /\ (state.isLoading ~> ~state.isLoading)

\* C26 witness: the first request of the only run has been rejected:
\* isLoading is false while the other request is still under way.
C26_Witness ==
    /\ lastOp.op = "loadData:catch"
    /\ ~state.isLoading
    /\ Len(fetches) = 1
    /\ ~fetches[1].overlapped
    /\ \E q \in Requests : fetches[1][q].status = "pending"

\* C27: the isLoading of the AIAssistant page is true whenever a
\* weekly-summary or a failure-analysis request started from the page is
\* under way.
C27_AssistantLoading ==
    assistant.pending.summary + assistant.pending.analysis > 0
       => assistant.isLoading

\* C28: handleSend does nothing when the trimmed input is empty or a request
\* is under way, so at most one request is under way; an accepted send
\* appends the trimmed input as one user message, the settling of its request
\* appends one assistant message (the reply, or the apology after a failure)
\* and leaves isLoading false; after the welcome message the roles alternate
\* user, assistant.
C28_ChatProtocol ==
    /\ [][(/\ lastOp'.op = "handleSend:ignored" =>
               /\ Trim(chat.input) = <<>> \/ chat.isLoading
               /\ chat' = chat
           /\ lastOp'.op = "handleSend" =>
               /\ Trim(chat.input) # <<>> /\ ~chat.isLoading
               /\ chat.pending = <<>>
               /\ chat'.messages =
                     Append(chat.messages,
                            Message("user", Trim(chat.input)))
               /\ chat'.pending = <<Trim(chat.input)>>
           /\ lastOp'.op \in {"handleSend:resolved", "handleSend:rejected"} =>
               /\ Len(chat'.messages) = Len(chat.messages) + 1
               /\ SubSeq(chat'.messages, 1, Len(chat.messages))
                     = chat.messages
               /\ chat'.messages[Len(chat'.messages)].role = "assistant"
               /\ chat'.messages[Len(chat'.messages)].content
                     \in IF lastOp'.op = "handleSend:rejected"
                         THEN {Apology}
                         ELSE ReplyInputs
               /\ ~chat'.isLoading
               /\ chat'.pending = <<>>)]_vars
    /\ []((Len(chat.pending) <= 1)
           /\ (chat.isLoading <=> chat.pending # <<>>)
           /\ (chat.messages[1] = Message("assistant", Welcome))
           /\ (\A i \in 2..Len(chat.messages) :
                 chat.messages[i].role =
                    IF i % 2 = 0 THEN "user" ELSE "assistant")
           /\ (chat.isLoading <=> Len(chat.messages) % 2 = 0))

\* Two rounds: a reply, then an apology, with a send ignored in between.
C28_Witness ==
    /\ Len(chat.messages) = 5
    /\ chat.messages[2] = Message("user", <<"hi">>)
    /\ chat.messages[3].content \in ReplyInputs
    /\ chat.messages[4] = Message("user", <<"a", Space, "b">>)
    /\ chat.messages[5] = Message("assistant", Apology)
    /\ ~chat.isLoading

\* C29: while no suggestion is displayed every change of the name to a value
\* of 3 or more characters issues a suggestHabit request for that value; a
\* response never replaces the displayed response to a request issued
\* later; a failed request leaves the suggestion unchanged.
C29_SuggestionFresh ==
    [][(/\ lastOp'.op = "handleNameChange"
            /\ Len(form'.name) >= 3 /\ form.suggestion = NoSuggestion
          => form'.pending = form.pending
                \cup {[request |-> form.issued + 1, value |-> form'.name]})
       /\ (lastOp'.op = "suggestHabit:resolved"
          => form'.suggestion.request >= form.suggestion.request)
       /\ (lastOp'.op = "suggestHabit:rejected"
          => form'.suggestion = form.suggestion)]_vars
====
